---- MODULE Spec2Model ----
(***************************************************************************)
(* Batch image optimisation pipeline of image_optimizer.py: file discovery *)
(* (get_all_image_files, is_image_file), the per-file transform            *)
(* (optimize_image) and the batch loop with its validation and progress    *)
(* accounting (ImageOptimizerWindow.start_optimization).                   *)
(*                                                                         *)
(* Strings (paths, file names, the texts of the input fields) are          *)
(* sequences of one-character strings, so that os.path.splitext,           *)
(* os.path.join, os.path.relpath, str.lower and int() are computed the way *)
(* the library computes them.  The image codec (PIL) is opaque: decoding   *)
(* succeeds or fails by the kind of the file, encoding may fail by a       *)
(* choice of the environment.                                              *)
(***************************************************************************)
EXTENDS Integers, Sequences, FiniteSets, TLC

\* ------------------------------------------------------------------ bounds

\* Entries the scanned tree holds before the first run (besides the root).
MaxEntries == 2
\* Clicks on "Start Optimization".
MaxRuns == 2

\* ----------------------------------------------------------------- strings

\* A file name or a text is a sequence of one-character strings; a path is the
\* sequence of its components (names), from the file system root for an
\* absolute path (so <<>> is "/"), from the start directory for a relative one.

\* str.rfind, 1-based: the last index of c in s, 0 when c does not occur.
RECURSIVE RFindFrom(_, _, _)
RFindFrom(s, c, i) ==
    IF i = 0 THEN 0 ELSE IF s[i] = c THEN i ELSE RFindFrom(s, c, i - 1)

RFind(s, c) == RFindFrom(s, c, Len(s))

LowerChar(c) ==
    CASE c = "A" -> "a" [] c = "B" -> "b" [] c = "G" -> "g" [] c = "J" -> "j"
      [] c = "N" -> "n" [] c = "P" -> "p" [] OTHER -> c

\* str.lower
lower(s) == [i \in 1..Len(s) |-> LowerChar(s[i])]

\* genericpath._splitext on one name: the extension starts at the last dot,
\* when some character other than a dot precedes that dot.
splitext_name(name) ==
    LET dotIndex == RFind(name, ".")
    IN  IF \E k \in 1..(dotIndex - 1) : name[k] # "."
        THEN <<SubSeq(name, 1, dotIndex - 1), SubSeq(name, dotIndex, Len(name))>>
        ELSE <<name, <<>>>>

\* The path p with text appended to its last component: p + text.
PathPlus(p, text) ==
    IF p = <<>> THEN <<text>> ELSE [p EXCEPT ![Len(p)] = p[Len(p)] \o text]

\* os.path.splitext of a path: only a dot of the last component counts.
splitext(p) ==
    IF p = <<>> THEN <<p, <<>>>>
    ELSE LET parts == splitext_name(p[Len(p)])
         IN  <<[p EXCEPT ![Len(p)] = parts[1]], parts[2]>>

\* os.path.join(a, b, c) with b and c relative.
join3(a, b, c) == a \o b \o c

\* os.path.join(a, b) with b relative.
join2(a, b) == a \o b

\* os.path.dirname
dirname(p) == SubSeq(p, 1, Len(p) - 1)

\* os.path.basename
basename(p) == IF p = <<>> THEN <<>> ELSE p[Len(p)]

Min2(a, b) == IF a < b THEN a ELSE b

\* The length of the longest common prefix of two paths.
RECURSIVE CommonFrom(_, _, _)
CommonFrom(a, b, k) ==
    IF k < Min2(Len(a), Len(b)) /\ a[k + 1] = b[k + 1]
    THEN CommonFrom(a, b, k + 1) ELSE k

\* os.path.relpath(path, start) for absolute paths: one ".." for every
\* component of start past the common prefix, then the rest of path.
relpath(path, start) ==
    LET i == CommonFrom(start, path, 0)
        rel_list == [k \in 1..(Len(start) - i) |-> <<".", ".">>]
                    \o SubSeq(path, i + 1, Len(path))
    IN  IF rel_list = <<>> THEN << <<".">> >> ELSE rel_list

DigitValue(c) ==
    CASE c = "0" -> 0 [] c = "1" -> 1 [] c = "2" -> 2 [] c = "3" -> 3
      [] c = "4" -> 4 [] c = "5" -> 5 [] c = "6" -> 6 [] c = "7" -> 7
      [] c = "8" -> 8 [] c = "9" -> 9 [] OTHER -> -1

RECURSIVE Digits(_)
Digits(s) ==
    IF s = <<>> THEN 0
    ELSE 10 * Digits(SubSeq(s, 1, Len(s) - 1)) + DigitValue(s[Len(s)])

\* int(text): [ok |-> FALSE] stands for the ValueError.
int(text) ==
    LET neg == text # <<>> /\ text[1] = "-"
        body == IF neg THEN SubSeq(text, 2, Len(text)) ELSE text
    IN  IF body # <<>> /\ \A k \in 1..Len(body) : DigitValue(body[k]) >= 0
        THEN [ok |-> TRUE, val |-> IF neg THEN 0 - Digits(body) ELSE Digits(body)]
        ELSE [ok |-> FALSE, val |-> 0]

\* int(text or default)
IntOr(text, default) ==
    IF text = <<>> THEN [ok |-> TRUE, val |-> default] ELSE int(text)

\* -------------------------------------------------------------- file system

\* A directory tree is a function from absolute paths to the kind of the entry:
\* "dir", "image" (a regular file PIL decodes and encodes), "unsavable" (a
\* regular file PIL decodes, but whose img.save raises), "data" (a regular
\* file that is no image: a text file, a corrupted picture) or "link" (a
\* symbolic link whose target does not exist).  The file system root <<>> is
\* always a directory.
Kinds == {"dir", "image", "unsavable", "data", "link"}

\* os.path.exists (follows links)
exists(tree, p) == p \in DOMAIN tree /\ tree[p] # "link"

\* os.path.isdir
isdir(tree, p) == p \in DOMAIN tree /\ tree[p] = "dir"

\* os.path.isfile
isfile(tree, p) == p \in DOMAIN tree /\ tree[p] \in {"image", "unsavable", "data"}

\* The tree with entry p set to kind.
WithEntry(tree, p, kind) ==
    [q \in DOMAIN tree \cup {p} |-> IF q = p THEN kind ELSE tree[q]]

\* os.listdir: the names of the entries of directory d.
listdir(tree, d) ==
    {basename(p) : p \in {q \in DOMAIN tree : q # <<>> /\ dirname(q) = d}}

\* os.mkdir: [ok |-> FALSE] stands for the OSError.
mkdir(tree, name) ==
    IF name \notin DOMAIN tree /\ isdir(tree, dirname(name))
    THEN [ok |-> TRUE, tree |-> WithEntry(tree, name, "dir")]
    ELSE [ok |-> FALSE, tree |-> tree]

\* os.makedirs(name, exist_ok=True): the missing ancestors are made first (an
\* error there is either swallowed or raised; in both cases the mkdir of name
\* fails after it), then name; an OSError of that mkdir is raised unless name
\* is a directory.
RECURSIVE makedirs(_, _)
makedirs(tree, name) ==
    LET head == dirname(name)
        up == IF name # <<>> /\ ~exists(tree, head)
              THEN makedirs(tree, head).tree ELSE tree
        made == mkdir(up, name)
    IN  [ok |-> made.ok \/ isdir(up, name), tree |-> made.tree]

\* ---------------------------------------------------------------- discovery

image_extensions ==
    { <<".", "j", "p", "g">>, <<".", "j", "p", "e", "g">>, <<".", "p", "n", "g">>,
      <<".", "g", "i", "f">>, <<".", "b", "m", "p">>, <<".", "t", "i", "f", "f">>,
      <<".", "w", "e", "b", "p">> }

is_image_file(filename) == lower(splitext_name(filename)[2]) \in image_extensions

\* The order of the characters, for the order of the names.
Alphabet ==
    << ".", "-", "0", "1", "2", "3", "4", "5", "6", "7", "8", "9", "B", "G", "J", "N", "P",
       "_", "a", "b", "c", "d", "e", "g", "h", "i", "j", "l", "m", "n", "o", "p", "r", "s",
       "t", "u", "w", "x", "z" >>

Rank(c) == CHOOSE i \in 1..Len(Alphabet) : Alphabet[i] = c

RECURSIVE NameLess(_, _)
NameLess(a, b) ==
    IF a = <<>> THEN b # <<>>
    ELSE IF b = <<>> THEN FALSE
    ELSE IF a[1] = b[1] THEN NameLess(Tail(a), Tail(b))
    ELSE Rank(a[1]) < Rank(b[1])

\* os.listdir and os.walk list a directory in an arbitrary order: the names
\* of S in ascending order, or in descending order when reverse.
RECURSIVE Listed(_, _)
Listed(S, reverse) ==
    IF S = {} THEN <<>>
    ELSE LET first == CHOOSE x \in S : \A y \in S \ {x} :
                          IF reverse THEN NameLess(y, x) ELSE NameLess(x, y)
         IN  <<first>> \o Listed(S \ {first}, reverse)

\* The pairs (full path, relative path) get_all_image_files appends for the
\* names of one directory.
RECURSIVE Appended(_, _, _)
Appended(names, root, directory) ==
    IF names = <<>> THEN <<>>
    ELSE << <<join2(root, <<names[1]>>), relpath(join2(root, <<names[1]>>), directory)>> >>
         \o Appended(Tail(names), root, directory)

\* os.walk(top), top-down and without following links: the image files among
\* the entries of root that are no directories, then the walk of each of its
\* directories.
RECURSIVE walk_image_files(_, _, _, _)
RECURSIVE walk_each(_, _, _, _)
walk_image_files(tree, directory, root, reverse) ==
    LET names == listdir(tree, root)
        dirs == {n \in names : isdir(tree, join2(root, <<n>>))}
        files == names \ dirs
    IN  Appended(Listed({n \in files : is_image_file(n)}, reverse), root, directory)
        \o walk_each(tree, directory, Appended(Listed(dirs, reverse), root, directory), reverse)

walk_each(tree, directory, roots, reverse) ==
    IF roots = <<>> THEN <<>>
    ELSE walk_image_files(tree, directory, roots[1][1], reverse)
         \o walk_each(tree, directory, Tail(roots), reverse)

\* The top directory only: its regular files that are image files.
top_image_files(tree, directory, reverse) ==
    LET names == {n \in listdir(tree, directory) :
                     isfile(tree, join2(directory, <<n>>)) /\ is_image_file(n)}
        listed == Listed(names, reverse)
    IN  [k \in 1..Len(listed) |-> <<join2(directory, <<listed[k]>>), <<listed[k]>>>>]

\* get_all_image_files(directory, recursive): the list of (full path,
\* relative path) it returns when the directories are listed in the given
\* order.
get_all_image_files(tree, directory, recursive, reverse) ==
    IF recursive THEN walk_image_files(tree, directory, directory, reverse)
    ELSE top_image_files(tree, directory, reverse)

\* ---------------------------------------------------------------- transform

WEBP == <<".", "w", "e", "b", "p">>

\* Image.open(input_path) and img.thumbnail: "" when the image is decoded,
\* the exception otherwise.
image_open(tree, input_path) ==
    IF input_path \notin DOMAIN tree \/ tree[input_path] = "link"
    THEN "FileNotFoundError"
    ELSE IF tree[input_path] = "dir" THEN "IsADirectoryError"
    ELSE IF tree[input_path] = "data" THEN "UnidentifiedImageError"
    ELSE ""

\* A path with .webp put after the extension instead of in its place.
save_path_appending(output_path, convert_to_webp) ==
    IF convert_to_webp THEN PathPlus(output_path, WEBP) ELSE output_path

\* The path img.save is given: with convert_to_webp the extension of
\* output_path is replaced by .webp.
save_path(output_path, convert_to_webp) ==
    IF convert_to_webp THEN PathPlus(splitext(output_path)[1], WEBP) ELSE output_path

\* img.save(path, optimize=True, quality=quality) of the image opened from
\* source: error is "" when the file is written, the exception otherwise.
image_save(tree, source, path, quality) ==
    IF isdir(tree, path) THEN [error |-> "IsADirectoryError", tree |-> tree]
    ELSE IF ~isdir(tree, dirname(path)) THEN [error |-> "FileNotFoundError", tree |-> tree]
    ELSE IF tree[source] = "unsavable" THEN [error |-> "OSError", tree |-> tree]
    ELSE [error |-> "", tree |-> WithEntry(tree, path, "image")]

\* The try block of optimize_image: raised is "" when it runs to its end and
\* the exception otherwise; written is the path saved to (<<>> when nothing
\* was saved).
optimize_image_try(tree, input_path, output_path, quality, convert_to_webp) ==
    LET made == makedirs(tree, dirname(output_path))
        opened == image_open(made.tree, input_path)
        target == save_path(output_path, convert_to_webp)
        saved == image_save(made.tree, input_path, target, quality)
    IN  IF ~made.ok THEN [raised |-> "FileExistsError", tree |-> made.tree, written |-> <<>>]
        ELSE IF opened # "" THEN [raised |-> opened, tree |-> made.tree, written |-> <<>>]
        ELSE IF saved.error # "" THEN [raised |-> saved.error, tree |-> saved.tree, written |-> <<>>]
        ELSE [raised |-> "", tree |-> saved.tree, written |-> target]

\* The exceptions the try block raises; all are subclasses of Exception.
Exceptions ==
    {"FileExistsError", "FileNotFoundError", "IsADirectoryError",
     "UnidentifiedImageError", "OSError"}

\* A handler that lets everything but a decoding error pass.
except_UnidentifiedImageError(tried) ==
    IF tried.raised = "" THEN [result |-> "", escaped |-> ""]
    ELSE IF tried.raised = "UnidentifiedImageError"
    THEN [result |-> tried.raised, escaped |-> ""]
    ELSE [result |-> "", escaped |-> tried.raised]

\* return True / except Exception as e: return str(e).  result "" stands for
\* True, any other result is str(e); escaped is the exception that leaves the
\* function ("" when none does).
except_Exception(tried) ==
    IF tried.raised = "" THEN [result |-> "", escaped |-> ""]
    ELSE IF tried.raised \in Exceptions THEN [result |-> tried.raised, escaped |-> ""]
    ELSE [result |-> "", escaped |-> tried.raised]

\* optimize_image(input_path, output_path, max_width, max_height, quality,
\* convert_to_webp); the sizes only reach the codec's thumbnail.
optimize_image(tree, input_path, output_path, quality, convert_to_webp) ==
    LET tried == optimize_image_try(tree, input_path, output_path, quality, convert_to_webp)
        caught == except_Exception(tried)
    IN  [result |-> caught.result, escaped |-> caught.escaped,
         tree |-> tried.tree, written |-> tried.written]

\* ------------------------------------------------------------ the inputs

OPTIMIZED == <<"o", "p", "t", "i", "m", "i", "z", "e", "d">>

Root == << <<"r">> >>
A_JPG == Root \o << <<"a", ".", "j", "p", "g">> >>
A_PNG == Root \o << <<"a", ".", "p", "n", "g">> >>
SUB == Root \o << <<"s", "u", "b">> >>
SUB_B_PNG == SUB \o << <<"b", ".", "P", "N", "G">> >>
D_GIF == Root \o << <<"d", ".", "g", "i", "f">> >>
L_BMP == Root \o << <<"l", ".", "b", "m", "p">> >>
R_OPTIMIZED == Root \o <<OPTIMIZED>>

\* The entries a scanned tree may hold before the first run.
Candidates ==
    { <<A_JPG, "image">>, <<A_JPG, "data">>, <<A_PNG, "image">>, <<A_PNG, "unsavable">>,
      <<SUB, "dir">>,
      <<SUB_B_PNG, "image">>, <<D_GIF, "dir">>, <<L_BMP, "link">>,
      <<R_OPTIMIZED, "data">> }

EmptyTree == [p \in {<<>>, Root} |-> "dir"]

TreeOf(S) ==
    [p \in DOMAIN EmptyTree \cup {e[1] : e \in S} |->
        IF p \in DOMAIN EmptyTree THEN "dir" ELSE (CHOOSE e \in S : e[1] = p)[2]]

InitialTrees ==
    {TreeOf(S) : S \in {T \in SUBSET Candidates :
        /\ Cardinality(T) <= MaxEntries
        /\ \A e, f \in T : e[1] = f[1] => e = f
        /\ \A e \in T : dirname(e[1]) = Root \/ <<dirname(e[1]), "dir">> \in T}}

\* The texts of the input fields as the window constructs them.
WIDTH_TEXT == <<"8", "0", "0">>
HEIGHT_TEXT == <<"8", "0", "0">>
QUALITY_TEXT == <<"8", "5">>

\* What the user may put in the folder field: nothing, the root, a path that
\* is a regular file or does not exist.
FolderTexts == {<<>>, Root, A_JPG}

\* What the user may put in the width, height and quality fields: the
\* constructed texts, three empty fields, a quality outside 1..100,
Forms ==
    { <<WIDTH_TEXT, HEIGHT_TEXT, QUALITY_TEXT>>,
      <<<<>>, <<>>, <<>>>>,
      <<WIDTH_TEXT, HEIGHT_TEXT, <<"0">>>>,
      <<WIDTH_TEXT, HEIGHT_TEXT, <<"1", "0", "1">>>> }

\* a field that is no number, or a size that is not positive.
OddForms ==
    { <<<<"a", "b", "c">>, HEIGHT_TEXT, QUALITY_TEXT>>,
      <<WIDTH_TEXT, HEIGHT_TEXT, <<"h", "i">>>>,
      <<<<"0">>, HEIGHT_TEXT, QUALITY_TEXT>>,
      <<WIDTH_TEXT, <<"-", "1">>, QUALITY_TEXT>> }

\* What the user submits, as (folder, form, recursive): the root with any
\* form; a folder that is no directory with the constructed form, or with a
\* form that is invalid as well.
Requests ==
    ({Root} \X Forms \X BOOLEAN)
    \cup ({Root} \X OddForms \X {TRUE})
    \cup (FolderTexts \X {<<WIDTH_TEXT, HEIGHT_TEXT, QUALITY_TEXT>>} \X {TRUE})
    \cup {<<<<>>, <<<<"0">>, HEIGHT_TEXT, QUALITY_TEXT>>, FALSE>>}

\* ------------------------------------------------------------------ state

VARIABLES
    fs,                 \* the directory tree
    folder_input,       \* the texts of the input fields at the last click
    width_input,
    height_input,
    quality_input,
    recursive_checkbox,
    webp_checkbox,
    progress_value,     \* progress_bar.value()
    progress_maximum,   \* progress_bar.maximum()
    status_label,
    pc,                 \* "idle", "loop" (inside the for loop) or "aborted"
    directory,          \* the locals of start_optimization
    quality,
    image_files,
    total_images,
    processed,
    errors,
    idx,                \* the position of the for loop in image_files
    success_count,
    dialogs,            \* the message boxes of the last run, in order
    calls,              \* the optimize_image calls of the last run, in order
    reports,            \* the values the loop gave progress_bar.setValue
    outcome,            \* how the last run ended, "running" while in the loop
    runs                \* clicks on the start button so far

widgets == <<folder_input, width_input, height_input, quality_input, recursive_checkbox>>
locals == <<directory, quality, image_files, total_images, processed, errors, idx>>
vars == <<fs, widgets, webp_checkbox, progress_value, progress_maximum, status_label,
          pc, locals, success_count, dialogs, calls, reports, outcome, runs>>

\* ImageOptimizerWindow.__init__: the fields hold their constructed texts,
\* both check boxes are checked, the progress bar is a fresh QProgressBar.
Init ==
    /\ fs \in InitialTrees
    /\ folder_input = <<>>
    /\ width_input = WIDTH_TEXT
    /\ height_input = HEIGHT_TEXT
    /\ quality_input = QUALITY_TEXT
    /\ recursive_checkbox = TRUE
    /\ webp_checkbox = TRUE
    /\ progress_value = -1
    /\ progress_maximum = 100
    /\ status_label = <<"Ready">>
    /\ pc = "idle"
    /\ directory = <<>>
    /\ quality = 0
    /\ image_files = <<>>
    /\ total_images = 0
    /\ processed = 0
    /\ errors = 0
    /\ idx = 1
    /\ success_count = 0
    /\ dialogs = <<>>
    /\ calls = <<>>
    /\ reports = <<>>
    /\ outcome = "none"
    /\ runs = 0

\* ------------------------------------------------------------- operations

\* The check of the parsed sizes.
nonpositive_and(max_width, max_height) == max_width <= 0 /\ max_height <= 0

\* if max_width <= 0 or max_height <= 0: raise ValueError
nonpositive(max_width, max_height) == max_width <= 0 \/ max_height <= 0

\* The try block of start_optimization: the three int() conversions and the
\* check of the sizes; ok is FALSE when a ValueError is raised.
parse_inputs(width_text, height_text, quality_text) ==
    LET w == IntOr(width_text, 800)
        h == IntOr(height_text, 800)
        q == IntOr(quality_text, 85)
    IN  [ok |-> w.ok /\ h.ok /\ q.ok /\ ~nonpositive(w.val, h.val),
         max_width |-> w.val, max_height |-> h.val, quality |-> q.val]

\* A path with optimized_ put before the file name, beside the input.
prefixed_output_path(dir, rel_path) ==
    join2(dir, PathPlus(dirname(rel_path), <<"o", "p", "t", "i", "m", "i", "z", "e", "d", "_">> \o basename(rel_path)))

\* output_path = os.path.join(directory, "optimized", rel_path)
output_path_for(dir, rel_path) == join3(dir, <<OPTIMIZED>>, rel_path)

\* An accounting that leaves the loop body early on an error.
account_continue(result, done, failed) ==
    IF result # ""
    THEN [errors |-> failed + 1, processed |-> done, report |-> <<>>]
    ELSE [errors |-> failed, processed |-> done + 1, report |-> <<done + 1>>]

\* if result is not True: errors += 1; processed += 1;
\* progress_bar.setValue(processed)
account(result, done, failed) ==
    [errors |-> IF result # "" THEN failed + 1 ELSE failed,
     processed |-> done + 1,
     report |-> <<done + 1>>]

\* A tally that forgets the errors.
tally_processed(done, failed) == done

\* success_count = processed - errors
tally(done, failed) == done - failed

\* The user fills the form and clicks "Start Optimization":
\* start_optimization up to the for loop.  The locals the call does not
\* reach keep their unset values.
start_optimization ==
    /\ pc = "idle"
    /\ runs < MaxRuns
    /\ \E request \in Requests :
        LET folder == request[1]
            form == request[2]
            recursive == request[3]
            parsed == parse_inputs(form[1], form[2], form[3])
        IN
        /\ folder_input' = folder
        /\ width_input' = form[1]
        /\ height_input' = form[2]
        /\ quality_input' = form[3]
        /\ recursive_checkbox' = recursive
        /\ runs' = runs + 1
        /\ calls' = <<>>
        /\ reports' = <<>>
        /\ directory' = folder
        /\ idx' = 1
        /\ processed' = 0
        /\ errors' = 0
        /\ UNCHANGED <<fs, webp_checkbox, status_label, success_count>>
        /\ IF ~isdir(fs, folder)
           THEN /\ dialogs' = << <<"error", "Please select a valid directory">> >>
                /\ outcome' = "invalid_directory"
                /\ quality' = 0
                /\ image_files' = <<>>
                /\ total_images' = 0
                /\ UNCHANGED <<pc, progress_value, progress_maximum>>
           ELSE IF ~parsed.ok
           THEN /\ dialogs' = << <<"error", "Invalid input">> >>
                /\ outcome' = "invalid_input"
                /\ quality' = 0
                /\ image_files' = <<>>
                /\ total_images' = 0
                /\ UNCHANGED <<pc, progress_value, progress_maximum>>
           ELSE \E reverse \in BOOLEAN :
                LET found == get_all_image_files(fs, folder, recursive, reverse) IN
                /\ quality' = parsed.quality
                /\ image_files' = found
                /\ total_images' = Len(found)
                /\ IF Len(found) = 0
                   THEN /\ dialogs' = << <<"info", "No images found in selected directory">> >>
                        /\ outcome' = "no_images"
                        /\ UNCHANGED <<pc, progress_value, progress_maximum>>
                   ELSE /\ dialogs' = <<>>
                        /\ outcome' = "running"
                        /\ pc' = "loop"
                        /\ progress_maximum' = Len(found)
                        /\ progress_value' = 0

\* One pass of the for loop, up to QApplication.processEvents().
process_file ==
    /\ pc = "loop"
    /\ idx <= Len(image_files)
    /\  LET input_path == image_files[idx][1]
            rel_path == image_files[idx][2]
            output_path == output_path_for(directory, rel_path)
            done == optimize_image(fs, input_path, output_path, quality, webp_checkbox)
            counted == account(done.result, processed, errors)
        IN  /\ fs' = done.tree
            /\ calls' = Append(calls, [input_path |-> input_path, rel_path |-> rel_path,
                                       output_path |-> output_path,
                                       convert_to_webp |-> webp_checkbox,
                                       result |-> done.result, escaped |-> done.escaped,
                                       written |-> done.written])
            /\ IF done.escaped # ""
               THEN /\ pc' = "aborted"
                    /\ outcome' = "aborted"
                    /\ UNCHANGED <<processed, errors, idx, progress_value, status_label,
                                   dialogs, reports>>
               ELSE /\ dialogs' = IF done.result # ""
                                  THEN Append(dialogs, <<"error", rel_path, done.result>>)
                                  ELSE dialogs
                    /\ errors' = counted.errors
                    /\ processed' = counted.processed
                    /\ progress_value' = IF counted.report # <<>>
                                         THEN counted.report[1] ELSE progress_value
                    /\ status_label' = IF counted.report # <<>>
                                       THEN <<"Processing", counted.processed, total_images>>
                                       ELSE status_label
                    /\ reports' = reports \o counted.report
                    /\ idx' = idx + 1
                    /\ UNCHANGED <<pc, outcome>>
    /\ UNCHANGED <<widgets, webp_checkbox, progress_maximum, directory, quality,
                   image_files, total_images, success_count, runs>>

\* The end of start_optimization, after the last pass of the loop.
finish_optimization ==
    /\ pc = "loop"
    /\ idx > Len(image_files)
    /\ success_count' = tally(processed, errors)
    /\ dialogs' = Append(dialogs, <<"info", tally(processed, errors), errors>>)
    /\ status_label' = <<"Ready">>
    /\ progress_value' = 0
    /\ pc' = "idle"
    /\ outcome' = "finished"
    /\ UNCHANGED <<fs, widgets, webp_checkbox, progress_maximum, locals, calls, reports, runs>>

\* The user clicks the "Convert to WebP" check box between two runs.  (The
\* loop reads the box at every pass and pumps the events of the window after
\* each; the user is taken to leave the window alone while a run is going.)
toggle_webp ==
    /\ pc = "idle"
    /\ webp_checkbox' = ~webp_checkbox
    /\ UNCHANGED <<fs, widgets, progress_value, progress_maximum, status_label, pc, locals,
                   success_count, dialogs, calls, reports, outcome, runs>>

Next == start_optimization \/ process_file \/ finish_optimization \/ toggle_webp

Spec == Init /\ [][Next]_vars

\* ----------------------------------------------------------------- claims

\* The calls of the last run whose transform returned an error.
Failed == {k \in 1..Len(calls) : calls[k].result # ""}

\* The calls of the last run whose transform wrote its output.
Succeeded == {k \in 1..Len(calls) : calls[k].result = ""}

\* C1: the loop calls optimize_image on the discovered files one by one in
\* the order of the list, whatever the earlier calls returned: the calls so
\* far are the first files of the list, a finished run has called it once on
\* every file, and no exception leaves a call.
C1_EveryFileAttempted ==
    /\ pc # "aborted"
    /\ \A k \in 1..Len(calls) : calls[k].escaped = ""
    /\ Len(calls) <= Len(image_files)
    /\ \A k \in 1..Len(calls) : calls[k].input_path = image_files[k][1]
    /\ outcome = "running" => Len(calls) = idx - 1
    /\ outcome = "finished" => Len(calls) = Len(image_files)

\* A finished run in which a file failed and a later file was still tried.
C1_Witness ==
    /\ outcome = "finished"
    /\ \E k \in Failed : k < Len(calls)

\* C2: a quality outside 1..100 stops the run before any file is touched:
\* after a click with such a quality no file has been transformed and no
\* progress has been reported.
C2_QualityValidated ==
    LET q == IntOr(quality_input, 85)
    IN  (runs > 0 /\ q.ok /\ q.val \notin 1..100)
        => /\ calls = <<>>
           /\ reports = <<>>

\* The request is one start_optimization must refuse: the folder is no
\* directory of the tree, a field is no integer, or a size is not positive.
InvalidRequest(tree, folder, width_text, height_text, quality_text) ==
    LET w == IntOr(width_text, 800)
        h == IntOr(height_text, 800)
        q == IntOr(quality_text, 85)
    IN  \/ ~isdir(tree, folder)
        \/ ~w.ok \/ ~h.ok \/ ~q.ok
        \/ (w.ok /\ w.val <= 0)
        \/ (h.ok /\ h.val <= 0)

\* C3: a click with an invalid request ends with one error box and nothing
\* else: no call of optimize_image, no file found, the tree and the progress
\* value as they were.
C3_InvalidRequestRefused ==
    [][(runs' = runs + 1
        /\ InvalidRequest(fs, folder_input', width_input', height_input', quality_input'))
       => /\ pc' = "idle"
          /\ Len(dialogs') = 1
          /\ dialogs'[1][1] = "error"
          /\ calls' = <<>>
          /\ image_files' = <<>>
          /\ fs' = fs
          /\ progress_value' = progress_value]_vars

\* A click with a size that is not positive was refused, after an earlier run.
C3_Witness ==
    /\ outcome = "invalid_input"
    /\ width_input = <<"0">>
    /\ runs = 2

\* C4: the loop reports progress once after every file, with the values
\* 1, 2, ... in this order, so a finished run over total files has reported
\* 1..total; the progress bar shows the last value reported.
C4_ProgressReported ==
    /\ reports = [k \in 1..Len(calls) |-> k]
    /\ outcome = "running" => total_images >= 1 /\ progress_value = Len(reports)
    /\ outcome = "finished" => total_images >= 1 /\ Len(reports) = total_images

\* A finished run over two files or more, one of which failed.
C4_Witness ==
    /\ outcome = "finished"
    /\ total_images >= 2
    /\ Failed # {}
    /\ Len(reports) = total_images

\* C5: during a run 0 <= errors <= processed <= total, errors counts the
\* calls that returned an error; a finished run has processed every file and
\* tells total - errors successes.
C5_Tally ==
    outcome \in {"running", "finished"}
    => /\ 0 <= errors /\ errors <= processed /\ processed <= total_images
       /\ processed = Len(calls)
       /\ errors = Cardinality(Failed)
       /\ outcome = "finished"
          => /\ processed = total_images
             /\ success_count = total_images - Cardinality(Failed)
             /\ dialogs[Len(dialogs)] = <<"info", total_images - errors, errors>>

\* A finished run in which exactly one file failed and another succeeded.
C5_Witness ==
    /\ outcome = "finished"
    /\ Cardinality(Failed) = 1
    /\ errors = 1
    /\ success_count = total_images - 1
    /\ success_count >= 1

\* The path p without the last n characters of its last component.
WithoutSuffix(p, n) == [p EXCEPT ![Len(p)] = SubSeq(p[Len(p)], 1, Len(p[Len(p)]) - n)]

\* C6: a file written with conversion is written to the output path with
\* .webp in the place of the extension of the input; a file written without
\* conversion is written to the output path, whose extension is the input's.
C6_OutputExtension ==
    \A k \in Succeeded :
        LET c == calls[k]
            extension == splitext(c.input_path)[2]
            stem == WithoutSuffix(c.output_path, Len(extension))
        IN  /\ extension # <<>>
            /\ c.output_path = PathPlus(stem, extension)
            /\ IF c.convert_to_webp
               THEN c.written = PathPlus(stem, WEBP)
               ELSE c.written = c.output_path

\* A file with an upper-case extension was written with conversion.
C6_Witness ==
    \E k \in Succeeded :
        /\ calls[k].convert_to_webp
        /\ splitext(calls[k].input_path)[2] = <<".", "P", "N", "G">>

\* C7 as stated: a recursive run writes to optimized/relative_path, a run
\* that is not recursive to a file named optimized_ + filename.
C7_NamingPolicy ==
    \A k \in 1..Len(calls) :
        IF recursive_checkbox
        THEN calls[k].output_path = directory \o <<OPTIMIZED>> \o calls[k].rel_path
        ELSE basename(calls[k].output_path)
             = <<"o", "p", "t", "i", "m", "i", "z", "e", "d", "_">> \o basename(calls[k].input_path)

\* C7 as amended: in both modes the output path is
\* directory/optimized/relative_path, the relative path leading from the
\* directory to the input; a run that is not recursive has the file name as
\* the relative path.
C7_OutputUnderOptimized ==
    \A k \in 1..Len(calls) :
        /\ calls[k].input_path = directory \o calls[k].rel_path
        /\ calls[k].output_path = directory \o <<OPTIMIZED>> \o calls[k].rel_path
        /\ ~recursive_checkbox => calls[k].rel_path = <<basename(calls[k].input_path)>>

\* A run that is not recursive has called optimize_image.
C7_Witness ==
    /\ ~recursive_checkbox
    /\ calls # <<>>
    /\ basename(calls[1].output_path) = basename(calls[1].input_path)

\* The extension of a name, as the claim reads it: the part from the last
\* dot on, when the name does not start with that dot.
ExtensionOf(name) ==
    IF \E i \in 2..Len(name) : name[i] = "."
    THEN LET i == CHOOSE j \in 2..Len(name) :
                      name[j] = "." /\ \A m \in (j + 1)..Len(name) : name[m] # "."
         IN  SubSeq(name, i, Len(name))
    ELSE <<>>

\* The regular files with an image extension, in the directory or (recursive)
\* at any depth below it, each with its path from the directory.
RegularImageFiles(tree, dir, recursive) ==
    {<<p, SubSeq(p, Len(dir) + 1, Len(p))>> :
        p \in {q \in DOMAIN tree :
                  /\ tree[q] \in {"image", "unsavable", "data"}
                  /\ Len(q) > Len(dir)
                  /\ SubSeq(q, 1, Len(dir)) = dir
                  /\ recursive \/ Len(q) = Len(dir) + 1
                  /\ lower(ExtensionOf(q[Len(q)])) \in image_extensions}}

\* C8: the list get_all_image_files returns holds exactly the regular files
\* with an image extension, each once (read where the list is fresh: the
\* loop has not started, or no image was found).
C8_ExactlyRegularImageFiles ==
    ((outcome = "running" /\ processed = 0) \/ outcome = "no_images")
    => /\ {image_files[k] : k \in 1..Len(image_files)}
          = RegularImageFiles(fs, directory, recursive_checkbox)
       /\ Len(image_files) = Cardinality(RegularImageFiles(fs, directory, recursive_checkbox))

\* C9: two files of one run are never written to the same path.
C9_DistinctOutputs ==
    \A j, k \in Succeeded : j # k => calls[j].written # calls[k].written

\* C10: no file of a run is written to the path of an input of that run.
C10_OutputNeverInput ==
    \A k \in Succeeded : \A i \in 1..Len(image_files) : calls[k].written # image_files[i][1]

====
